---- MODULE Spec2Model ----
(***************************************************************************)
(* A model of slinkie's stateful operators (src/slinkie.py): the round     *)
(* robin demultiplexer split, the sliding window sweep, the thread pool    *)
(* evaluator parallelize and the ordered dispatcher switch.  Each operator *)
(* has its own specification (SpecSplit, SpecSweep, SpecPar, SpecSwitch);  *)
(* the variables of the other operators stay at their initial values.      *)
(***************************************************************************)
EXTENDS Integers, Sequences, FiniteSets, TLC

\* ---------------------------------------------------------------- bounds
MaxLen == 4
MaxOut == 3
MaxWidth == 3
MaxStep == 3
MaxTasks == 3
MaxThreads == 2
MaxPairs == 2
MaxItems == 2
MaxTake == 3
MaxChunk == 3
MaxConsume == 5

\* The items a source may hold.  NoneVal is Python's None, the padding of sweep.
Items == {"a", "b"}
NoneVal == "None"

RECURSIVE SeqsUpTo(_, _)
SeqsUpTo(S, k) ==
    IF k = 0 THEN {<<>>}
    ELSE LET shorter == SeqsUpTo(S, k - 1)
         IN  shorter \cup {Append(q, x) : q \in {r \in shorter : Len(r) = k - 1}, x \in S}

Sources == SeqsUpTo(Items, MaxLen)

Min(a, b) == IF a < b THEN a ELSE b

VARIABLE
    mode          \* which operator this run exercises: "split", "sweep", ...

VARIABLES
    \* ---- split
    spSrc,        \* the list wrapped by the Slinkie split is called on
    spPos,        \* how many items next(self._items) has handed out
    spN,          \* number_of_slinkies
    collections,  \* [0..spN-1 -> Seq(Items)]: the deques
    spGen,        \* [0..spN-1 -> {"new", "suspended", "done"}]: _sub_sequence(i)
    spOut,        \* [0..spN-1 -> Seq(Items)]: what output i has yielded so far
    spEnds        \* [0..spN-1 -> Nat]: how often output i has raised StopIteration

VARIABLES
    \* ---- sweep
    swSrc,        \* the list wrapped by the Slinkie sweep is called on
    swPos,        \* how many items next(self._items) has handed out
    width,        \* sweep's width
    step,         \* sweep's step
    current,      \* the deque(maxlen=width)
    swGen,        \* "new", "suspended" or "done": sweep's _inner
    windows,      \* the tuples yielded so far
    swEnds        \* how often the handle has raised StopIteration

VARIABLES
    \* ---- parallelize
    pSrc,         \* the list wrapped by the Slinkie parallelize is called on
    pPos,         \* how many items next(self._items) has handed out
    threads,      \* number_of_threads
    pc,           \* where parallelize's _inner is: "new", "submitting",
                  \* "waiting" (inside as_completed), "suspended" (at a yield),
                  \* "joining" (inside shutdown(wait=True)), "done"
    pool,         \* "none", "open", "shutdown", "released"
    task,         \* Seq of "queued" | "running" | "finished" | "cancelled": tasks
    workQ,        \* the pool's FIFO work queue (task numbers)
    running,      \* the tasks a pool thread is running fn for
    exited,       \* how many pool threads have returned
    completed,    \* task numbers in the order their futures finished
    waiterOn,     \* as_completed's waiter is installed on the futures
    snapshot,     \* as_completed's `finished` set taken at its start, not yet yielded
    waiterQ,      \* waiter.finished_futures in arrival order, not yet yielded
    yielded,      \* task numbers in the order their values were yielded
    pValues,      \* the values yielded
    exit,         \* how _inner ended: "none", "end", "closed", "raised"
    atClose,      \* [queued, running] when the consumer closed the stream
    pEnds         \* how often the handle has raised StopIteration

parVars == <<pSrc, pPos, threads, pc, pool, task, workQ, running, exited, completed,
             waiterOn, snapshot, waiterQ, yielded, pValues, exit, atClose, pEnds>>

VARIABLES
    \* ---- switch
    swiPairs,     \* the (predicate, action) pairs in declaration order; a
                  \* predicate is the set of keys it is true of, the action of
                  \* the i-th pair is lambda it: ("action", i, it)
    swiKey,       \* the key function
    swiOtherwise, \* "identity" (the default) or "given"
    swiSrc,       \* the items mapped through the switch
    swiPos,       \* how many of them have been pulled
    swiOut,       \* the outputs so far
    swiEvals      \* per item, the pairs whose predicate was evaluated, in order

switchVars == <<swiPairs, swiKey, swiOtherwise, swiSrc, swiPos, swiOut, swiEvals>>

VARIABLES
    \* ---- take, on a handle observed by tee
    tkSrc,        \* the list under Slinkie(items).tee(display)
    tkPos,        \* how many items the tee handle has handed out
    tkN,          \* take's n
    tkGen,        \* "new", "suspended" or "done": take's _inner
    tkCount,      \* how many turns of `for _ in range(n)` have yielded
    tkPulls,      \* how many times take's _inner called next(self._items)
    tkOut,        \* what the take handle has yielded
    tkSeen,       \* what tee's display was called with
    tkParentOut,  \* what next() on the parent handle itself has returned
    tkEndPos,     \* tkPos when the take handle signalled End, 0 before
    tkEnds,       \* how often the take handle has raised StopIteration
    tkParentEnds  \* how often the parent handle has raised StopIteration

takeVars == <<tkSrc, tkPos, tkN, tkGen, tkCount, tkPulls, tkOut, tkSeen, tkParentOut,
              tkEndPos, tkEnds, tkParentEnds>>

VARIABLES
    \* ---- skip and partition, each on its own Slinkie over the same list
    ckSrc,        \* the list
    ckN,          \* the n given to skip and to partition
    skPos,        \* how many items the skip handle's iterator has handed out
    skState,      \* "uncalled", "returned" or "raised": the call skip(n)
    skCallPos,    \* skPos when skip was called
    skAfter,      \* what next() on the handle has returned since skip returned
    ptPos,        \* how many items the partition parent's iterator has handed out
    ptGen,        \* "new", "suspended" or "done": partition's _inner
    ptChunks,     \* the chunks yielded, each the list under its Slinkie
    ptEnds        \* how often the partition handle has raised StopIteration

chunkVars == <<ckSrc, ckN, skPos, skState, skCallPos, skAfter, ptPos, ptGen, ptChunks, ptEnds>>

VARIABLES
    \* ---- first, first_or_none, last, last_or_none
    acSrc,        \* the list wrapped
    acPos,        \* how many items the handle has handed out
    acOp,         \* the accessor called, "none" before
    acAt,         \* acPos when it was called
    acResult      \* <<"value", item>>, <<"None", NoneVal>> or <<"StopIteration", NoneVal>>

accVars == <<acSrc, acPos, acOp, acAt, acResult>>

VARIABLES
    \* ---- filter, map, take, flatten, group, unique: call, then pulls
    lzSrc,        \* the list wrapped
    lzPos,        \* how many items next(self._items) has handed out
    lzOp,         \* the operator
    lzPred,       \* filter's key, as the set of items it is true of
    lzN,          \* take's n
    lzState,      \* "uncalled", "called" or "done": the returned handle
    lzAtCall,     \* how many items the call itself pulled
    lzCallPos,    \* lzPos when the operator was called
    lzPulls,      \* how many times the returned handle has been pulled
    lzOut,        \* what the returned handle has yielded
    lzSeen,       \* unique's seen
    lzGrouped,    \* group's grouped, in insertion order: <<key, items>> pairs
    lzCount       \* take's loop count / group's position in grouped.items()

lazyVars == <<lzSrc, lzPos, lzOp, lzPred, lzN, lzState, lzAtCall, lzCallPos, lzPulls, lzOut,
              lzSeen, lzGrouped, lzCount>>

VARIABLES
    \* ---- consume
    cnSrc,        \* the list wrapped
    cnPos,        \* how many items the handle's iterator has handed out
    cnArg,        \* consume's n: <<"none", 0>> for None, <<"int", k>> for k
    cnState,      \* "uncalled" or "returned": the call consume(n)
    cnAt,         \* cnPos when consume was called
    cnAfter       \* what next() on the handle has returned since consume returned

consumeVars == <<cnSrc, cnPos, cnArg, cnState, cnAt, cnAfter>>

splitVars == <<spSrc, spPos, spN, collections, spGen, spOut, spEnds>>
sweepVars == <<swSrc, swPos, width, step, current, swGen, windows, swEnds>>

vars == <<mode, splitVars, sweepVars, parVars, switchVars, takeVars, chunkVars, accVars, lazyVars,
          consumeVars>>

\* What the actions of one operator leave alone.
notSplit == <<mode, sweepVars, parVars, switchVars, takeVars, chunkVars, accVars, lazyVars,
             consumeVars>>
notSweep == <<mode, splitVars, parVars, switchVars, takeVars, chunkVars, accVars, lazyVars,
             consumeVars>>
notPar == <<mode, splitVars, sweepVars, switchVars, takeVars, chunkVars, accVars, lazyVars,
             consumeVars>>
notSwitch == <<mode, splitVars, sweepVars, parVars, takeVars, chunkVars, accVars, lazyVars,
             consumeVars>>
notTake == <<mode, splitVars, sweepVars, parVars, switchVars, chunkVars, accVars, lazyVars,
             consumeVars>>
notChunk == <<mode, splitVars, sweepVars, parVars, switchVars, takeVars, accVars, lazyVars,
             consumeVars>>
notAcc == <<mode, splitVars, sweepVars, parVars, switchVars, takeVars, chunkVars, lazyVars,
             consumeVars>>
notConsume == <<mode, splitVars, sweepVars, parVars, switchVars, takeVars, chunkVars, accVars,
               lazyVars>>
notLazy == <<mode, splitVars, sweepVars, parVars, switchVars, takeVars, chunkVars, accVars,
             consumeVars>>

\* ================================================================= split
Outputs == 0 .. (spN - 1)

\* _add_items: one pass over the deques in index order, one upstream item for
\* each, abandoned at the first StopIteration.  st = [cols, pos].
RECURSIVE AddItemsFrom(_, _)
AddItemsFrom(c, st) ==
    IF c >= spN THEN st
    ELSE IF st.pos >= Len(spSrc) THEN st
    ELSE AddItemsFrom(c + 1,
            [cols |-> [st.cols EXCEPT ![c] = Append(@, spSrc[st.pos + 1])],
             pos  |-> st.pos + 1])

\* A pass that walks the deques from the last to the first.
RECURSIVE AddItemsDown(_, _)
AddItemsDown(c, st) ==
    IF c < 0 THEN st
    ELSE IF st.pos >= Len(spSrc) THEN st
    ELSE AddItemsDown(c - 1,
            [cols |-> [st.cols EXCEPT ![c] = Append(@, spSrc[st.pos + 1])],
             pos  |-> st.pos + 1])

AddItemsReversed(st) == AddItemsDown(spN - 1, st)

AddItems(st) == AddItemsFrom(0, st)

\* The loop of _sub_sequence yielding collections[i][0] without popleft().
SubSequenceLoopNoPop(i, st) ==
    IF st.cols[i] # <<>>
    THEN LET after == AddItems(st)
         IN  /\ collections' = after.cols
             /\ spPos' = after.pos
             /\ spOut' = [spOut EXCEPT ![i] = Append(@, Head(after.cols[i]))]
             /\ spGen' = [spGen EXCEPT ![i] = "suspended"]
             /\ UNCHANGED spEnds
    ELSE /\ collections' = st.cols
         /\ spPos' = st.pos
         /\ spGen' = [spGen EXCEPT ![i] = "done"]
         /\ spEnds' = [spEnds EXCEPT ![i] = 1]
         /\ UNCHANGED spOut

\* The loop of _sub_sequence from its `while` test to the next yield (or the end).
SubSequenceLoop(i, st) ==
    IF st.cols[i] # <<>>
    THEN LET after == AddItems(st)
         IN  /\ collections' = [after.cols EXCEPT ![i] = Tail(@)]
             /\ spPos' = after.pos
             /\ spOut' = [spOut EXCEPT ![i] = Append(@, Head(after.cols[i]))]
             /\ spGen' = [spGen EXCEPT ![i] = "suspended"]
             /\ UNCHANGED spEnds
    ELSE /\ collections' = st.cols
         /\ spPos' = st.pos
         /\ spGen' = [spGen EXCEPT ![i] = "done"]
         /\ spEnds' = [spEnds EXCEPT ![i] = 1]
         /\ UNCHANGED spOut

\* A _sub_sequence that goes to its `while` test without the first _add_items().
SplitFirstPullNoFill(i) ==
    /\ spGen[i] = "new"
    /\ SubSequenceLoop(i, [cols |-> collections, pos |-> spPos])
    /\ UNCHANGED <<spSrc, spN>>
    /\ UNCHANGED notSplit

\* next() on output i for the first time: the generator body starts.
SplitFirstPull(i) ==
    /\ spGen[i] = "new"
    /\ SubSequenceLoop(i, AddItems([cols |-> collections, pos |-> spPos]))
    /\ UNCHANGED <<spSrc, spN>>
    /\ UNCHANGED notSplit

\* next() on output i, suspended at its yield.
SplitPull(i) ==
    /\ spGen[i] = "suspended"
    /\ SubSequenceLoop(i, [cols |-> collections, pos |-> spPos])
    /\ UNCHANGED <<spSrc, spN>>
    /\ UNCHANGED notSplit

\* next() on output i after it raised StopIteration: a finished generator
\* raises it again and touches nothing.
SplitPullEnded(i) ==
    /\ spGen[i] = "done"
    /\ spEnds[i] < 2
    /\ spEnds' = [spEnds EXCEPT ![i] = @ + 1]
    /\ UNCHANGED <<spSrc, spN, spPos, collections, spGen, spOut>>
    /\ UNCHANGED notSplit

\* The operators not under study rest in these states.
SplitIdle ==
    /\ spSrc = <<>>
    /\ spN = 2
    /\ spPos = 0
    /\ collections = [i \in 0 .. 1 |-> <<>>]
    /\ spGen = [i \in 0 .. 1 |-> "new"]
    /\ spOut = [i \in 0 .. 1 |-> <<>>]
    /\ spEnds = [i \in 0 .. 1 |-> 0]

SweepIdle ==
    /\ swSrc = <<>>
    /\ swPos = 0
    /\ width = 1
    /\ step = 1
    /\ current = <<>>
    /\ swGen = "new"
    /\ windows = <<>>
    /\ swEnds = 0

ParIdle ==
    /\ pSrc = <<>>
    /\ pPos = 0
    /\ threads = 1
    /\ pc = "new"
    /\ pool = "none"
    /\ task = <<>>
    /\ workQ = <<>>
    /\ running = {}
    /\ exited = 0
    /\ completed = <<>>
    /\ waiterOn = FALSE
    /\ snapshot = {}
    /\ waiterQ = <<>>
    /\ yielded = <<>>
    /\ pValues = <<>>
    /\ exit = "none"
    /\ atClose = [queued |-> 0, running |-> 0]
    /\ pEnds = 0

SwitchIdle ==
    /\ swiPairs = <<>>
    /\ swiKey = [x \in Items |-> x]
    /\ swiOtherwise = "identity"
    /\ swiSrc = <<>>
    /\ swiPos = 0
    /\ swiOut = <<>>
    /\ swiEvals = <<>>

TakeIdle ==
    /\ tkSrc = <<>>
    /\ tkPos = 0
    /\ tkN = 0
    /\ tkGen = "new"
    /\ tkCount = 0
    /\ tkPulls = 0
    /\ tkOut = <<>>
    /\ tkSeen = <<>>
    /\ tkParentOut = <<>>
    /\ tkEndPos = 0
    /\ tkEnds = 0
    /\ tkParentEnds = 0

ChunkIdle ==
    /\ ckSrc = <<>>
    /\ ckN = 0
    /\ skPos = 0
    /\ skState = "uncalled"
    /\ skCallPos = 0
    /\ skAfter = <<>>
    /\ ptPos = 0
    /\ ptGen = "new"
    /\ ptChunks = <<>>
    /\ ptEnds = 0

AccIdle ==
    /\ acSrc = <<>>
    /\ acPos = 0
    /\ acOp = "none"
    /\ acAt = 0
    /\ acResult = <<"none", NoneVal>>

LazyIdle ==
    /\ lzSrc = <<>>
    /\ lzPos = 0
    /\ lzOp = "filter"
    /\ lzPred = {}
    /\ lzN = 0
    /\ lzState = "uncalled"
    /\ lzAtCall = 0
    /\ lzCallPos = 0
    /\ lzPulls = 0
    /\ lzOut = <<>>
    /\ lzSeen = {}
    /\ lzGrouped = <<>>
    /\ lzCount = 0

ConsumeIdle ==
    /\ cnSrc = <<>>
    /\ cnPos = 0
    /\ cnArg = <<"none", 0>>
    /\ cnState = "uncalled"
    /\ cnAt = 0
    /\ cnAfter = <<>>

\* Everything but the operator named is at rest.
OthersIdle(m) ==
    /\ IF m = "split" THEN TRUE ELSE SplitIdle
    /\ IF m = "sweep" THEN TRUE ELSE SweepIdle
    /\ IF m = "parallelize" THEN TRUE ELSE ParIdle
    /\ IF m = "switch" THEN TRUE ELSE SwitchIdle
    /\ IF m = "take" THEN TRUE ELSE TakeIdle
    /\ IF m = "chunk" THEN TRUE ELSE ChunkIdle
    /\ IF m = "access" THEN TRUE ELSE AccIdle
    /\ IF m = "lazy" THEN TRUE ELSE LazyIdle
    /\ IF m = "consume" THEN TRUE ELSE ConsumeIdle

SplitInit ==
    /\ mode = "split"
    /\ OthersIdle("split")
    /\ spSrc \in Sources
    /\ spN \in 2 .. MaxOut
    /\ spPos = 0
    /\ collections = [i \in 0 .. (spN - 1) |-> <<>>]
    /\ spGen = [i \in 0 .. (spN - 1) |-> "new"]
    /\ spOut = [i \in 0 .. (spN - 1) |-> <<>>]
    /\ spEnds = [i \in 0 .. (spN - 1) |-> 0]

SplitNext ==
    \/ \E i \in Outputs : SplitFirstPull(i)
    \/ \E i \in Outputs : SplitPull(i)
    \/ \E i \in Outputs : SplitPullEnded(i)

SpecSplit == SplitInit /\ [][SplitNext]_vars

\* ---------------------------------------------------------- split: claims
\* The items of q at the 0-based positions p with p % n = i, in position order.
Residue(q, i, n) ==
    LET cnt == IF Len(q) > i THEN ((Len(q) - 1 - i) \div n) + 1 ELSE 0
    IN  [k \in 1 .. cnt |-> q[(k - 1) * n + i + 1]]

RECURSIVE SumLen(_, _)
SumLen(f, k) == IF k < 0 THEN 0 ELSE Len(f[k]) + SumLen(f, k - 1)

RECURSIVE Count(_, _)
Count(x, q) == IF q = <<>> THEN 0 ELSE (IF Head(q) = x THEN 1 ELSE 0) + Count(x, Tail(q))

RECURSIVE SumCount(_, _, _)
SumCount(x, f, k) == IF k < 0 THEN 0 ELSE Count(x, f[k]) + SumCount(x, f, k - 1)

AllOutputsEnded == \A i \in Outputs : spGen[i] = "done"

\* C1: an output of split(n), n >= 2, that has been drained to End has yielded
\* exactly the source items at the positions p with p mod n = i, in increasing
\* position order, whatever the interleaving of the pulls among the outputs.
C1_SplitRoundRobin ==
    \A i \in Outputs : spGen[i] = "done" => spOut[i] = Residue(spSrc, i, spN)

\* The last output is drained (at least two items) before output 0 is ever pulled.
C1_Witness ==
    /\ spGen[spN - 1] = "done"
    /\ Len(spOut[spN - 1]) >= 2
    /\ spGen[0] = "new"

\* C2: split neither duplicates nor loses: the items pulled from upstream are
\* the items delivered plus the items held in the deques, and once every output
\* has signalled End every upstream item has been pulled and delivered once.
C2_SplitConservation ==
    /\ spPos = SumLen(spOut, spN - 1) + SumLen(collections, spN - 1)
    /\ AllOutputsEnded =>
          /\ spPos = Len(spSrc)
          /\ SumLen(spOut, spN - 1) = Len(spSrc)
          /\ \A x \in Items : SumCount(x, spOut, spN - 1) = Count(x, spSrc)

\* Every output has ended, and been pulled once more, after a source of
\* MaxLen items.
C2_Witness ==
    /\ AllOutputsEnded
    /\ Len(spSrc) = MaxLen
    /\ \E i \in Outputs : spEnds[i] = 2

\* ================================================================= sweep
\* Everything upstream has left, whatever n is: list(self) in place of
\* self.take(n).
TakeEverything(pos, n) == SubSeq(swSrc, pos + 1, Len(swSrc))

\* self.take(n) drained: the next min(n, remaining) upstream items.
Take(pos, n) == SubSeq(swSrc, pos + 1, pos + Min(n, Len(swSrc) - pos))

\* deque(maxlen=width).extend(items): append one by one, the oldest item
\* falling off the left end when the deque is full.
RECURSIVE DequeExtend(_, _)
DequeExtend(cur, items) ==
    IF items = <<>> THEN cur
    ELSE LET grown == Append(cur, Head(items))
             kept  == IF Len(grown) > width THEN SubSeq(grown, Len(grown) - width + 1, Len(grown))
                      ELSE grown
         IN  DequeExtend(kept, Tail(items))

\* A sweep that never pads.
PaddingNever(items) == <<>>

\* The None padding after a short, non-empty take(step).
Padding(items) ==
    IF items # <<>> /\ Len(items) < step
    THEN [k \in 1 .. (step - Len(items)) |-> NoneVal]
    ELSE <<>>

\* The call sweep(width, step): it defines _inner and returns
\* Slinkie(_inner()) whatever width and step are; no argument is examined
\* and nothing runs until the first next().
SweepCall(w, s) == "new"

\* The first next(): take(width) fills the deque; `while items` tests the
\* Slinkie object that take returned, which has neither __bool__ nor __len__
\* and so is true whatever it held; the deque is yielded as a tuple.
SweepFirstPull ==
    /\ swGen = "new"
    /\ LET items == Take(swPos, width)
       IN  /\ swPos' = swPos + Len(items)
           /\ current' = DequeExtend(<<>>, items)
           /\ windows' = Append(windows, current')
           /\ swGen' = "suspended"
    /\ UNCHANGED <<swSrc, width, step, swEnds>>
    /\ UNCHANGED notSweep

\* A later next(): take(step).tuple(), extend, pad, then the `while items`
\* test on that tuple: yield when it is non-empty, return when it is empty.
SweepPull ==
    /\ swGen = "suspended"
    /\ LET items == Take(swPos, step)
           cur   == DequeExtend(DequeExtend(current, items), Padding(items))
       IN  /\ swPos' = swPos + Len(items)
           /\ current' = cur
           /\ IF items # <<>>
              THEN /\ windows' = Append(windows, cur)
                   /\ UNCHANGED <<swGen, swEnds>>
              ELSE /\ swGen' = "done"
                   /\ swEnds' = 1
                   /\ UNCHANGED windows
    /\ UNCHANGED <<swSrc, width, step>>
    /\ UNCHANGED notSweep

\* next() after the generator returned: StopIteration again.
SweepPullEnded ==
    /\ swGen = "done"
    /\ swEnds < 2
    /\ swEnds' = swEnds + 1
    /\ UNCHANGED <<swSrc, swPos, width, step, current, swGen, windows>>
    /\ UNCHANGED notSweep

SweepInit ==
    /\ mode = "sweep"
    /\ OthersIdle("sweep")
    /\ swSrc \in Sources
    /\ width \in 0 .. MaxWidth
    /\ step \in 1 .. MaxStep
    /\ swPos = 0
    /\ current = <<>>
    /\ swGen = SweepCall(width, step)
    /\ windows = <<>>
    /\ swEnds = 0

SweepNext ==
    \/ SweepFirstPull
    \/ SweepPull
    \/ SweepPullEnded

SpecSweep == SweepInit /\ [][SweepNext]_vars

\* ---------------------------------------------------------- sweep: claims
\* The k-th window (k from 0) the claim describes: the source items at the
\* positions k*step .. k*step+width-1, None where the source has ended.
ExpectedWindow(k) ==
    [j \in 1 .. width |->
        IF k * step + j <= Len(swSrc) THEN swSrc[k * step + j] ELSE NoneVal]

\* ceil(max(0, L - w) / s) + 1
ExpectedCount ==
    LET rest == IF Len(swSrc) > width THEN Len(swSrc) - width ELSE 0
    IN  ((rest + step - 1) \div step) + 1

\* C3: for width >= 1 and a source of at least width items, the k-th window
\* yielded holds the source items at positions k*step .. k*step+width-1 with
\* None at every position past the end, and draining yields exactly
\* ceil(max(0, L - width) / step) + 1 windows.
C3_SweepWindows ==
    (width >= 1 /\ Len(swSrc) >= width) =>
        /\ \A k \in 1 .. Len(windows) : windows[k] = ExpectedWindow(k - 1)
        /\ Len(windows) =< ExpectedCount
        /\ swGen = "done" => Len(windows) = ExpectedCount

\* Drained, with a gap (step > width) and a padded final window.
C3_Witness ==
    /\ swGen = "done"
    /\ width >= 1
    /\ step > width
    /\ Len(swSrc) >= width
    /\ Len(windows) >= 2
    /\ windows[Len(windows)][width] = NoneVal

\* C4: every tuple sweep yields has exactly width items, also for a source
\* shorter than width, and an empty source yields no tuple at all.
C4_SweepFixedLength ==
    width >= 1 =>
        /\ \A k \in 1 .. Len(windows) : Len(windows[k]) = width
        /\ swSrc = <<>> => windows = <<>>

\* C17: sweep(0, step) is rejected by the call: no handle is returned, and so
\* no window is ever yielded.
C17_SweepZeroRejected ==
    width = 0 =>
        /\ swGen = "rejected"
        /\ windows = <<>>

\* =========================================================== parallelize
Tasks == 1 .. Len(task)

\* cpu_count() + 1 on a machine with one CPU.
DefaultThreads == 2

\* number_of_threads = number_of_threads or (cpu_count() + 1), evaluated when
\* the generator body starts: a zero is replaced by the default.
PoolSize == IF threads = 0 THEN DefaultThreads ELSE threads

\* The call parallelize(fn, number_of_threads): it defines _inner and returns
\* Slinkie(_inner()); number_of_threads is not examined before the first
\* next().
ParCall(n) == "new"

\* The pool threads blocked on the work queue.  The pool has PoolSize of
\* them; which thread runs which work item makes no difference.
IdleThreads == PoolSize - Cardinality(running) - exited

\* fn, the function given to parallelize.  It terminates on every item: it
\* returns a value for "a" and raises an Exception for "b".
Fn(item) ==
    IF item = "b" THEN [raised |-> TRUE, val |-> <<"error", item>>]
    ELSE [raised |-> FALSE, val |-> <<"result", item>>]

\* try: yield future.result() / except Exception: yield exception, with the
\* except clause missing.
FutureOutcomeUncaught(t) ==
    LET r == Fn(pSrc[t])
    IN  IF r.raised THEN [act |-> "raise", val |-> r.val]
        ELSE [act |-> "yield", val |-> r.val]

\* try: yield future.result() / except Exception as exception: yield exception
FutureOutcome(t) ==
    LET r == Fn(pSrc[t])
    IN  [act |-> "yield", val |-> r.val]

\* The first next(): the generator body starts and the pool is created.
\* ThreadPoolExecutor(max_workers) raises ValueError for max_workers <= 0,
\* which leaves the generator finished, no pool made and no item pulled.
ParFirstPull ==
    /\ pc = "new"
    /\ IF PoolSize >= 1
       THEN /\ pc' = "submitting"
            /\ pool' = "open"
            /\ UNCHANGED exit
       ELSE /\ pc' = "done"
            /\ exit' = "raised"
            /\ UNCHANGED pool
    /\ UNCHANGED <<pSrc, pPos, threads, task, workQ, running, exited, completed, waiterOn,
                   snapshot, waiterQ, yielded, pValues, atClose, pEnds>>
    /\ UNCHANGED notPar

\* One turn of the list comprehension: pull one item, tpe.submit(fn, item).
ParSubmit ==
    /\ pc = "submitting"
    /\ pPos < Len(pSrc)
    /\ pPos' = pPos + 1
    /\ task' = Append(task, "queued")
    /\ workQ' = Append(workQ, Len(task) + 1)
    /\ UNCHANGED <<pSrc, threads, pc, pool, running, exited, completed, waiterOn,
                   snapshot, waiterQ, yielded, pValues, exit, atClose, pEnds>>
    /\ UNCHANGED notPar

\* as_completed starting while the comprehension has not yet drained upstream.
ParAsCompletedEarly ==
    /\ pc = "submitting"
    /\ snapshot' = {t \in Tasks : task[t] = "finished"}
    /\ waiterOn' = TRUE
    /\ pc' = "waiting"
    /\ UNCHANGED <<pSrc, pPos, threads, pool, task, workQ, running, exited, completed,
                   waiterQ, yielded, pValues, exit, atClose, pEnds>>
    /\ UNCHANGED notPar

\* as_completed(tasks) starts: the futures already finished are collected in
\* a set, and a waiter is installed on all of them.
ParAsCompleted ==
    /\ pc = "submitting"
    /\ pPos = Len(pSrc)
    /\ snapshot' = {t \in Tasks : task[t] = "finished"}
    /\ waiterOn' = TRUE
    /\ pc' = "waiting"
    /\ UNCHANGED <<pSrc, pPos, threads, pool, task, workQ, running, exited, completed,
                   waiterQ, yielded, pValues, exit, atClose, pEnds>>
    /\ UNCHANGED notPar

\* A pool thread takes the oldest work item off the queue.  The None that
\* shutdown puts on the queue sits behind every work item, so this goes on
\* after shutdown.
WorkerTake ==
    /\ IdleThreads > 0
    /\ workQ # <<>>
    /\ running' = running \cup {Head(workQ)}
    /\ task' = [task EXCEPT ![Head(workQ)] = "running"]
    /\ workQ' = Tail(workQ)
    /\ UNCHANGED <<pSrc, pPos, threads, pc, pool, exited, completed, waiterOn, snapshot,
                   waiterQ, yielded, pValues, exit, atClose, pEnds>>
    /\ UNCHANGED notPar

\* fn returns or raises on a pool thread: the future of t finishes, and an
\* installed waiter is told.
WorkerFinish(t) ==
    /\ t \in running
    /\ task' = [task EXCEPT ![t] = "finished"]
    /\ completed' = Append(completed, t)
    /\ waiterQ' = IF waiterOn THEN Append(waiterQ, t) ELSE waiterQ
    /\ running' = running \ {t}
    /\ UNCHANGED <<pSrc, pPos, threads, pc, pool, workQ, exited, waiterOn, snapshot,
                   yielded, pValues, exit, atClose, pEnds>>
    /\ UNCHANGED notPar

\* A pool thread finds the None of shutdown on the queue and returns.
WorkerExit ==
    /\ IdleThreads > 0
    /\ workQ = <<>>
    /\ pool = "shutdown"
    /\ exited' = exited + 1
    /\ UNCHANGED <<pSrc, pPos, threads, pc, pool, task, workQ, running, completed, waiterOn,
                   snapshot, waiterQ, yielded, pValues, exit, atClose, pEnds>>
    /\ UNCHANGED notPar

\* The with block is left: as_completed's finally removes the waiter and
\* __exit__ calls shutdown(wait=True), which goes on to join the threads.
LeaveWith(how) ==
    /\ waiterOn' = FALSE
    /\ pool' = "shutdown"
    /\ pc' = "joining"
    /\ exit' = how

\* as_completed hands over the future t, and the generator yields its value.
ParYieldFuture(t) ==
    LET o == FutureOutcome(t)
    IN  IF o.act = "yield"
        THEN /\ yielded' = Append(yielded, t)
             /\ pValues' = Append(pValues, o.val)
             /\ pc' = "suspended"
             /\ UNCHANGED <<pool, waiterOn, exit>>
        ELSE /\ LeaveWith("raised")
             /\ UNCHANGED <<yielded, pValues>>

\* as_completed first yields the futures of its starting set, in the order
\* of a Python set of futures, which is any order.
ParYieldSnapshot ==
    /\ pc = "waiting"
    /\ \E t \in snapshot :
          /\ snapshot' = snapshot \ {t}
          /\ ParYieldFuture(t)
    /\ UNCHANGED <<pSrc, pPos, threads, task, workQ, running, exited, completed,
                   waiterQ, atClose, pEnds>>
    /\ UNCHANGED notPar

\* Then it yields the futures the waiter was told of, in the order they came.
ParYieldWaiter ==
    /\ pc = "waiting"
    /\ snapshot = {}
    /\ waiterQ # <<>>
    /\ waiterQ' = Tail(waiterQ)
    /\ ParYieldFuture(Head(waiterQ))
    /\ UNCHANGED <<pSrc, pPos, threads, task, workQ, running, exited, completed,
                   snapshot, atClose, pEnds>>
    /\ UNCHANGED notPar

\* next() on the handle suspended at its yield: back into as_completed.
ParPull ==
    /\ pc = "suspended"
    /\ pc' = "waiting"
    /\ UNCHANGED <<pSrc, pPos, threads, pool, task, workQ, running, exited, completed,
                   waiterOn, snapshot, waiterQ, yielded, pValues, exit, atClose, pEnds>>
    /\ UNCHANGED notPar

\* A loop that ends as soon as no finished future is at hand, without waiting.
ParDrainedNoWait ==
    /\ pc = "waiting"
    /\ snapshot = {}
    /\ waiterQ = <<>>
    /\ LeaveWith("end")
    /\ UNCHANGED <<pSrc, pPos, threads, task, workQ, running, exited, completed,
                   snapshot, waiterQ, yielded, pValues, atClose, pEnds>>
    /\ UNCHANGED notPar

\* as_completed has yielded every future: the for loop ends.
ParDrained ==
    /\ pc = "waiting"
    /\ Len(yielded) = Len(task)
    /\ LeaveWith("end")
    /\ UNCHANGED <<pSrc, pPos, threads, task, workQ, running, exited, completed,
                   snapshot, waiterQ, yielded, pValues, atClose, pEnds>>
    /\ UNCHANGED notPar

\* close() with cancel_futures: the work items still queued are cancelled.
ParCloseCancelling ==
    /\ pc = "suspended"
    /\ LeaveWith("closed")
    /\ atClose' = [queued |-> Len(workQ),
                   running |-> Cardinality(running)]
    /\ task' = [t \in Tasks |-> IF task[t] = "queued" THEN "cancelled" ELSE task[t]]
    /\ workQ' = <<>>
    /\ UNCHANGED <<pSrc, pPos, threads, running, exited, completed,
                   snapshot, waiterQ, yielded, pValues, pEnds>>
    /\ UNCHANGED notPar

\* The consumer closes (or drops) the handle suspended at its yield:
\* GeneratorExit is raised there, which `except Exception` does not catch.
ParClose ==
    /\ pc = "suspended"
    /\ LeaveWith("closed")
    /\ atClose' = [queued |-> Len(workQ),
                   running |-> Cardinality(running)]
    /\ UNCHANGED <<pSrc, pPos, threads, task, workQ, running, exited, completed,
                   snapshot, waiterQ, yielded, pValues, pEnds>>
    /\ UNCHANGED notPar

\* The consumer closes the handle it never pulled: the body never ran.
ParCloseUnstarted ==
    /\ pc = "new"
    /\ pc' = "done"
    /\ exit' = "closed"
    /\ UNCHANGED <<pSrc, pPos, threads, pool, task, workQ, running, exited, completed,
                   waiterOn, snapshot, waiterQ, yielded, pValues, atClose, pEnds>>
    /\ UNCHANGED notPar

\* shutdown(wait=False): the with block is left without joining the threads.
ParJoinedNoWait ==
    /\ pc = "joining"
    /\ pool' = "released"
    /\ pc' = "done"
    /\ pEnds' = IF exit = "end" THEN 1 ELSE pEnds
    /\ UNCHANGED <<pSrc, pPos, threads, task, workQ, running, exited, completed, waiterOn,
                   snapshot, waiterQ, yielded, pValues, exit, atClose>>
    /\ UNCHANGED notPar

\* shutdown(wait=True) returns once every pool thread is joined; the
\* generator is finished (StopIteration after a drained loop).
ParJoined ==
    /\ pc = "joining"
    /\ exited = PoolSize
    /\ pool' = "released"
    /\ pc' = "done"
    /\ pEnds' = IF exit = "end" THEN 1 ELSE pEnds
    /\ UNCHANGED <<pSrc, pPos, threads, task, workQ, running, exited, completed, waiterOn,
                   snapshot, waiterQ, yielded, pValues, exit, atClose>>
    /\ UNCHANGED notPar

\* next() on the finished generator: StopIteration again.
ParPullEnded ==
    /\ pc = "done"
    /\ pEnds < 2
    /\ pEnds' = pEnds + 1
    /\ UNCHANGED <<pSrc, pPos, threads, pc, pool, task, workQ, running, exited, completed,
                   waiterOn, snapshot, waiterQ, yielded, pValues, exit, atClose>>
    /\ UNCHANGED notPar

\* parallelize called with number_of_threads zero or negative.
ParConfigInit ==
    /\ mode = "parallelize"
    /\ OthersIdle("parallelize")
    /\ pSrc \in SeqsUpTo(Items, MaxTasks)
    /\ threads \in -1 .. 0
    /\ pPos = 0
    /\ pc = ParCall(threads)
    /\ pool = "none"
    /\ task = <<>>
    /\ workQ = <<>>
    /\ running = {}
    /\ exited = 0
    /\ completed = <<>>
    /\ waiterOn = FALSE
    /\ snapshot = {}
    /\ waiterQ = <<>>
    /\ yielded = <<>>
    /\ pValues = <<>>
    /\ exit = "none"
    /\ atClose = [queued |-> 0, running |-> 0]
    /\ pEnds = 0

ParInit ==
    /\ mode = "parallelize"
    /\ OthersIdle("parallelize")
    /\ pSrc \in SeqsUpTo(Items, MaxTasks)
    /\ threads \in 1 .. MaxThreads
    /\ pPos = 0
    /\ pc = ParCall(threads)
    /\ pool = "none"
    /\ task = <<>>
    /\ workQ = <<>>
    /\ running = {}
    /\ exited = 0
    /\ completed = <<>>
    /\ waiterOn = FALSE
    /\ snapshot = {}
    /\ waiterQ = <<>>
    /\ yielded = <<>>
    /\ pValues = <<>>
    /\ exit = "none"
    /\ atClose = [queued |-> 0, running |-> 0]
    /\ pEnds = 0

ParWorkers ==
    \/ WorkerTake
    \/ \E t \in Tasks : WorkerFinish(t)
    \/ WorkerExit

ParNext ==
    \/ ParFirstPull
    \/ ParSubmit
    \/ ParAsCompleted
    \/ ParWorkers
    \/ ParYieldSnapshot
    \/ ParYieldWaiter
    \/ ParPull
    \/ ParDrained
    \/ ParClose
    \/ ParCloseUnstarted
    \/ ParJoined
    \/ ParPullEnded

SpecPar == ParInit /\ [][ParNext]_vars

SpecParConfig == ParConfigInit /\ [][ParNext]_vars

\* The pool threads are scheduled and every call of fn terminates; a blocked
\* as_completed or shutdown goes on once it can.
FairSpecPar ==
    /\ SpecPar
    /\ WF_vars(ParWorkers)
    /\ WF_vars(ParJoined)

\* ---------------------------------------------------- parallelize: claims
NoDup(q) == \A i, j \in 1 .. Len(q) : i # j => q[i] # q[j]

Range(q) == {q[k] : k \in 1 .. Len(q)}

\* The future of a finished before the future of b did.
CompletedBefore(a, b) ==
    \E i, j \in 1 .. Len(completed) : i < j /\ completed[i] = a /\ completed[j] = b

\* C5: parallelize over N items yields N values before it signals End, and
\* every submitted item is represented by exactly one of them (the result of
\* fn or the exception it raised), under every schedule of the pool threads.
C5_ParExactlyOnce ==
    /\ NoDup(yielded)
    /\ Range(yielded) \subseteq Tasks
    /\ Len(pValues) = Len(yielded)
    /\ \A k \in 1 .. Len(yielded) : pValues[k] = Fn(pSrc[yielded[k]]).val
    /\ exit = "end" =>
          /\ Len(pValues) = Len(pSrc)
          /\ Range(yielded) = 1 .. Len(pSrc)

\* Drained to End on two threads, MaxTasks items, the first value yielded not
\* that of the first item.
C5_Witness ==
    /\ pc = "done"
    /\ exit = "end"
    /\ threads = 2
    /\ Len(pSrc) = MaxTasks
    /\ yielded[1] # 1

\* C6: the values come in completion order: when the value of b is yielded,
\* the value of every a whose computation completed before b's has been
\* yielded before it.
C6_ParCompletionOrder ==
    \A k \in 1 .. Len(yielded) :
        \A a \in Tasks :
            CompletedBefore(a, yielded[k]) => \E j \in 1 .. (k - 1) : yielded[j] = a

\* C7: an item on which fn raises has the exception yielded as its value, the
\* stream is not aborted by it, and it still ends normally only after all N
\* values, those of the other items included.
C7_ParFailureInBand ==
    /\ exit # "raised"
    /\ \A k \in 1 .. Len(yielded) :
          pValues[k] = IF pSrc[yielded[k]] = "b" THEN <<"error", "b">>
                       ELSE <<"result", pSrc[yielded[k]]>>
    /\ exit = "end" => \A t \in 1 .. Len(pSrc) : \E k \in 1 .. Len(pValues) : yielded[k] = t

\* Drained to End with the exception of the first item yielded first and
\* two results after it.
C7_Witness ==
    /\ exit = "end"
    /\ Len(pValues) = 3
    /\ pSrc[1] = "b"
    /\ pValues[1] = <<"error", "b">>
    /\ pValues[2] = <<"result", "a">>
    /\ pValues[3] = <<"result", "a">>

Incomplete(t) == task[t] \in {"queued", "running"}

PoolQuiet ==
    /\ \A t \in Tasks : ~Incomplete(t)
    /\ running = {}
    /\ exited = PoolSize

\* C8: on each way out of the stream (drained, or closed early) the pool is
\* not released while a submitted unit is incomplete, and, fn terminating, the
\* pool is then released with no pool thread still running.
C8_ParPoolReleased ==
    /\ [](pool = "released" => PoolQuiet)
    /\ [](pc = "done" => pool \in {"none", "released"})
    /\ (pool = "shutdown") ~> (pool = "released" /\ PoolQuiet)

\* Released after the consumer closed the stream with work still running
\* and work still queued.
C8_Witness ==
    /\ pool = "released"
    /\ exit = "closed"
    /\ atClose.running > 0
    /\ atClose.queued > 0

\* C9: nothing is cancelled: when the consumer abandons the stream after
\* fewer than N values, each of the N submitted items has had fn run to
\* completion by the time the pool is released.
C9_ParNoCancellation ==
    /\ \A t \in Tasks : task[t] # "cancelled"
    /\ (pool = "released" /\ exit = "closed") =>
          /\ Len(task) = Len(pSrc)
          /\ Range(completed) = 1 .. Len(pSrc)
          /\ \A t \in Tasks : task[t] = "finished"

\* Released after a close that came after one value of MaxTasks, with items
\* then still queued in the pool.
C9_Witness ==
    /\ pool = "released"
    /\ exit = "closed"
    /\ Len(pSrc) = MaxTasks
    /\ Len(yielded) = 1
    /\ atClose.queued >= 1

\* ================================================================ switch
\* The key functions tried: the identity (the default) and one that is not.
KeyFns == {[x \in Items |-> x], [x \in Items |-> IF x = "a" THEN "b" ELSE "a"]}

\* A scan that evaluates every predicate and keeps the last match.
RECURSIVE ScanLast(_, _, _, _)
ScanLast(pairs, i, k, r) ==
    IF i > Len(pairs) THEN r
    ELSE ScanLast(pairs, i + 1, k,
            [hit |-> IF k \in pairs[i] THEN i ELSE r.hit, evals |-> Append(r.evals, i)])

\* The scan of the pairs in declaration order from pair i on, for the key k:
\* the first pair whose predicate is true of k is the hit and ends the scan.
RECURSIVE Scan(_, _, _, _)
Scan(pairs, i, k, r) ==
    IF i > Len(pairs) THEN r
    ELSE IF k \in pairs[i] THEN [hit |-> i, evals |-> Append(r.evals, i)]
    ELSE Scan(pairs, i + 1, k, [hit |-> 0, evals |-> Append(r.evals, i)])

\* A switch that puts out None when no predicate matches and no otherwise
\* was given.
OtherwiseNone(item) ==
    IF swiOtherwise = "identity" THEN <<"item", 0, NoneVal>> ELSE <<"otherwise", 0, item>>

\* otherwise(item): the identity when none was given.
Otherwise(item) ==
    IF swiOtherwise = "identity" THEN <<"item", 0, item>> ELSE <<"otherwise", 0, item>>

\* switch(item): k = key(item), the scan on k, then the action of the hit on
\* the raw item, or otherwise(item) without a hit.
SwitchApply(item) ==
    LET r == Scan(swiPairs, 1, swiKey[item], [hit |-> 0, evals |-> <<>>])
    IN  [out   |-> IF r.hit > 0 THEN <<"action", r.hit, item>> ELSE Otherwise(item),
         evals |-> r.evals]

\* One next() on Slinkie(items).map(switch): one item in, one output out.
SwitchPull ==
    /\ swiPos < Len(swiSrc)
    /\ LET r == SwitchApply(swiSrc[swiPos + 1])
       IN  /\ swiOut' = Append(swiOut, r.out)
           /\ swiEvals' = Append(swiEvals, r.evals)
    /\ swiPos' = swiPos + 1
    /\ UNCHANGED <<swiPairs, swiKey, swiOtherwise, swiSrc>>
    /\ UNCHANGED notSwitch

SwitchInit ==
    /\ mode = "switch"
    /\ OthersIdle("switch")
    /\ swiPairs \in SeqsUpTo(SUBSET Items, MaxPairs)
    /\ swiKey \in KeyFns
    /\ swiOtherwise \in {"identity", "given"}
    /\ swiSrc \in SeqsUpTo(Items, MaxItems)
    /\ swiPos = 0
    /\ swiOut = <<>>
    /\ swiEvals = <<>>

SwitchNext == SwitchPull

SpecSwitch == SwitchInit /\ [][SwitchNext]_vars

\* --------------------------------------------------------- switch: claims
\* The pairs whose predicate is true of the key of item.
Matching(item) == {i \in 1 .. Len(swiPairs) : swiKey[item] \in swiPairs[i]}

Least(S) == CHOOSE i \in S : \A j \in S : i =< j

\* C10: first match wins: for an item some predicate is true of, the output
\* is the action of the earliest declared pair whose predicate is true of
\* key(item), applied to the raw item, and the predicates evaluated are those
\* of the pairs up to that one and none after it.
C10_SwitchFirstMatch ==
    \A n \in 1 .. Len(swiOut) :
        LET item == swiSrc[n]
        IN  Matching(item) # {} =>
              /\ swiOut[n] = <<"action", Least(Matching(item)), item>>
              /\ swiEvals[n] = [i \in 1 .. Least(Matching(item)) |-> i]

\* An item whose key differs from it and is matched by both of two
\* overlapping predicates.
C10_Witness ==
    /\ Len(swiOut) >= 1
    /\ Len(swiPairs) = 2
    /\ swiKey[swiSrc[1]] # swiSrc[1]
    /\ Matching(swiSrc[1]) = {1, 2}
    /\ swiPairs[1] # swiPairs[2]


IdentityKey == [x \in Items |-> x]

\* C11: an item no predicate is true of comes out as otherwise(item), which is
\* the item itself when no otherwise was given, after every predicate was
\* evaluated; and when no key was given the predicates are evaluated on the
\* item itself.
C11_SwitchOtherwise ==
    \A n \in 1 .. Len(swiOut) :
        LET item == swiSrc[n]
        IN  /\ Matching(item) = {} =>
                /\ swiOut[n] = IF swiOtherwise = "identity" THEN <<"item", 0, item>>
                               ELSE <<"otherwise", 0, item>>
                /\ swiEvals[n] = [i \in 1 .. Len(swiPairs) |-> i]
            /\ swiKey = IdentityKey =>
                (swiOut[n][1] = "action" <=> \E i \in 1 .. Len(swiPairs) : item \in swiPairs[i])

\* An item that passes through unchanged: two predicates, neither true of it,
\* no key and no otherwise given.
C11_Witness ==
    /\ Len(swiOut) >= 1
    /\ Len(swiPairs) = 2
    /\ swiKey = IdentityKey
    /\ swiOtherwise = "identity"
    /\ swiPairs[1] # {}
    /\ Matching(swiSrc[1]) = {}
    /\ swiOut[1] = <<"item", 0, swiSrc[1]>>


\* ================================================================== take
\* Slinkie(items).tee(display).take(n): the take handle and the handle it
\* was taken from share one iterator, the generator of tee.

\* take's _inner pulling before it looks at its count: the item after the
\* n-th is pulled and dropped.
TakePullGreedy ==
    /\ tkGen \in {"new", "suspended"}
    /\ IF tkPos < Len(tkSrc)
       THEN /\ tkPos' = tkPos + 1
            /\ tkSeen' = Append(tkSeen, tkSrc[tkPos + 1])
            /\ IF tkCount < tkN
               THEN /\ tkOut' = Append(tkOut, tkSrc[tkPos + 1])
                    /\ tkPulls' = tkPulls + 1
                    /\ tkCount' = tkCount + 1
                    /\ tkGen' = "suspended"
                    /\ UNCHANGED <<tkEndPos, tkEnds>>
               ELSE /\ tkGen' = "done"
                    /\ tkEndPos' = tkPos + 1
                    /\ tkEnds' = 1
                    /\ UNCHANGED <<tkOut, tkPulls, tkCount>>
       ELSE /\ tkGen' = "done"
            /\ tkEndPos' = tkPos
            /\ tkEnds' = 1
            /\ UNCHANGED <<tkPos, tkSeen, tkOut, tkPulls, tkCount>>
    /\ UNCHANGED <<tkSrc, tkN, tkParentOut, tkParentEnds>>
    /\ UNCHANGED notTake

\* next() on the take handle: one turn of `for _ in range(n): yield
\* next(self._items)`; the loop running out, or StopIteration from upstream,
\* ends the generator.  tee displays each item that passes.
TakePull ==
    /\ tkGen \in {"new", "suspended"}
    /\ IF tkCount < tkN /\ tkPos < Len(tkSrc)
       THEN /\ tkPos' = tkPos + 1
            /\ tkSeen' = Append(tkSeen, tkSrc[tkPos + 1])
            /\ tkOut' = Append(tkOut, tkSrc[tkPos + 1])
            /\ tkPulls' = tkPulls + 1
            /\ tkCount' = tkCount + 1
            /\ tkGen' = "suspended"
            /\ UNCHANGED <<tkEndPos, tkEnds>>
       ELSE /\ tkGen' = "done"
            /\ tkEndPos' = tkPos
            /\ tkEnds' = 1
            /\ UNCHANGED <<tkPos, tkSeen, tkOut, tkPulls, tkCount>>
    /\ UNCHANGED <<tkSrc, tkN, tkParentOut, tkParentEnds>>
    /\ UNCHANGED notTake

\* next() on the finished take handle.
TakePullEnded ==
    /\ tkGen = "done"
    /\ tkEnds < 2
    /\ tkEnds' = tkEnds + 1
    /\ UNCHANGED <<tkSrc, tkPos, tkN, tkGen, tkCount, tkPulls, tkOut, tkSeen, tkParentOut,
                   tkEndPos, tkParentEnds>>
    /\ UNCHANGED notTake

\* A parent handle that starts over from the first item once it has run out.
ParentPullRewinds ==
    /\ tkPos < Len(tkSrc) \/ (tkParentEnds > 0 /\ tkSrc # <<>>)
    /\ LET at == IF tkPos < Len(tkSrc) THEN tkPos ELSE 0
       IN  /\ tkPos' = at + 1
           /\ tkSeen' = Append(tkSeen, tkSrc[at + 1])
           /\ tkParentOut' = Append(tkParentOut, tkSrc[at + 1])
    /\ Len(tkParentOut) < MaxLen + 1
    /\ UNCHANGED <<tkSrc, tkN, tkGen, tkCount, tkPulls, tkOut, tkEndPos, tkEnds, tkParentEnds>>
    /\ UNCHANGED notTake

\* next() on the parent handle itself (Slinkie.__next__), an item left.
ParentPull ==
    /\ tkPos < Len(tkSrc)
    /\ tkPos' = tkPos + 1
    /\ tkSeen' = Append(tkSeen, tkSrc[tkPos + 1])
    /\ tkParentOut' = Append(tkParentOut, tkSrc[tkPos + 1])
    /\ UNCHANGED <<tkSrc, tkN, tkGen, tkCount, tkPulls, tkOut, tkEndPos, tkEnds, tkParentEnds>>
    /\ UNCHANGED notTake

\* next() on the parent handle, none left: StopIteration.
ParentPullEnded ==
    /\ tkPos = Len(tkSrc)
    /\ tkParentEnds < 2
    /\ tkParentEnds' = tkParentEnds + 1
    /\ UNCHANGED <<tkSrc, tkPos, tkN, tkGen, tkCount, tkPulls, tkOut, tkSeen, tkParentOut,
                   tkEndPos, tkEnds>>
    /\ UNCHANGED notTake

TakeInit ==
    /\ mode = "take"
    /\ OthersIdle("take")
    /\ tkSrc \in Sources
    /\ tkN \in 0 .. MaxTake
    /\ tkPos = 0
    /\ tkGen = "new"
    /\ tkCount = 0
    /\ tkPulls = 0
    /\ tkOut = <<>>
    /\ tkSeen = <<>>
    /\ tkParentOut = <<>>
    /\ tkEndPos = 0
    /\ tkEnds = 0
    /\ tkParentEnds = 0

TakeNext ==
    \/ TakePull
    \/ TakePullEnded
    \/ ParentPull
    \/ ParentPullEnded

SpecTake == TakeInit /\ [][TakeNext]_vars

\* ----------------------------------------------------------- take: claims
\* C13: take(n) gets min(n, remaining) items from upstream and no more: after
\* its n-th item it signals End without another pull, so a tee below it has
\* seen the first n items only and the next item is still to be had from the
\* parent handle.
C13_TakeStopsPulling ==
    /\ tkPulls = Len(tkOut)
    /\ tkPulls =< tkN
    /\ tkSeen = SubSeq(tkSrc, 1, tkPos)
    /\ tkGen = "done" =>
          \* tkEndPos - tkPulls items went to the parent handle before the end
          /\ tkPulls = Min(tkN, Len(tkSrc) - (tkEndPos - tkPulls))
          /\ tkParentOut = <<>> =>
                /\ tkPos = Min(tkN, Len(tkSrc))
                /\ tkOut = SubSeq(tkSrc, 1, Min(tkN, Len(tkSrc)))
                /\ tkSeen = tkOut
          /\ (tkEndPos = tkPulls /\ tkParentOut # <<>>) =>
                tkParentOut[1] = tkSrc[tkPulls + 1]

\* take(2) of four items drained to End, then the third item pulled from
\* the parent handle.
C13_Witness ==
    /\ tkGen = "done"
    /\ tkN = 2
    /\ Len(tkSrc) = 4
    /\ tkEndPos = 2
    /\ tkParentOut = <<tkSrc[3]>>


\* ======================================================= skip, partition
\* Slinkie(q).take(n) drained from position pos: the next min(n, remaining) items.
TakeFrom(q, pos, n) == SubSeq(q, pos + 1, pos + Min(n, Len(q) - pos))

\* A skip that discards one item too few.
SkipOffByOne(pos, n) ==
    IF n = 0 THEN [pos |-> pos, state |-> "returned"]
    ELSE IF Len(ckSrc) - pos >= n - 1 THEN [pos |-> pos + n - 1, state |-> "returned"]
    ELSE [pos |-> Len(ckSrc), state |-> "raised"]

\* skip(n): `for i in range(n): next(self._items)`, then `return self`.  With
\* fewer than n items left, next raises StopIteration out of skip after the
\* items that were left have been discarded.
Skip(pos, n) ==
    IF Len(ckSrc) - pos >= n THEN [pos |-> pos + n, state |-> "returned"]
    ELSE [pos |-> Len(ckSrc), state |-> "raised"]

\* next() on the handle before skip is called on it.
SkipPullBefore ==
    /\ skState = "uncalled"
    /\ skPos < Len(ckSrc)
    /\ skPos' = skPos + 1
    /\ UNCHANGED <<ckSrc, ckN, skState, skCallPos, skAfter, ptPos, ptGen, ptChunks, ptEnds>>
    /\ UNCHANGED notChunk

\* The call skip(n).
SkipCall ==
    /\ skState = "uncalled"
    /\ skCallPos' = skPos
    /\ skPos' = Skip(skPos, ckN).pos
    /\ skState' = Skip(skPos, ckN).state
    /\ UNCHANGED <<ckSrc, ckN, skAfter, ptPos, ptGen, ptChunks, ptEnds>>
    /\ UNCHANGED notChunk

\* next() on the handle skip returned (the same handle).
SkipPull ==
    /\ skState = "returned"
    /\ skPos < Len(ckSrc)
    /\ skAfter' = Append(skAfter, ckSrc[skPos + 1])
    /\ skPos' = skPos + 1
    /\ UNCHANGED <<ckSrc, ckN, skState, skCallPos, ptPos, ptGen, ptChunks, ptEnds>>
    /\ UNCHANGED notChunk

\* partition's _inner without its `if not result: return`.
PartitionPullNoEmptyTest ==
    /\ ptGen \in {"new", "suspended"}
    /\ LET result == TakeFrom(ckSrc, ptPos, ckN)
       IN  /\ ptPos' = ptPos + Len(result)
           /\ ptChunks' = Append(ptChunks, result)
           /\ ptGen' = "suspended"
           /\ UNCHANGED ptEnds
    /\ UNCHANGED <<ckSrc, ckN, skPos, skState, skCallPos, skAfter>>
    /\ UNCHANGED notChunk

\* next() on the partition handle: result = self.take(n).list(); an empty
\* result ends the generator, any other is yielded wrapped in a Slinkie.
PartitionPull ==
    /\ ptGen \in {"new", "suspended"}
    /\ LET result == TakeFrom(ckSrc, ptPos, ckN)
       IN  /\ ptPos' = ptPos + Len(result)
           /\ IF result = <<>>
              THEN /\ ptGen' = "done"
                   /\ ptEnds' = 1
                   /\ UNCHANGED ptChunks
              ELSE /\ ptChunks' = Append(ptChunks, result)
                   /\ ptGen' = "suspended"
                   /\ UNCHANGED ptEnds
    /\ UNCHANGED <<ckSrc, ckN, skPos, skState, skCallPos, skAfter>>
    /\ UNCHANGED notChunk

\* next() on the finished partition handle.
PartitionPullEnded ==
    /\ ptGen = "done"
    /\ ptEnds < 2
    /\ ptEnds' = ptEnds + 1
    /\ UNCHANGED <<ckSrc, ckN, skPos, skState, skCallPos, skAfter, ptPos, ptGen, ptChunks>>
    /\ UNCHANGED notChunk

ChunkInit ==
    /\ mode = "chunk"
    /\ OthersIdle("chunk")
    /\ ckSrc \in Sources
    /\ ckN \in 0 .. MaxChunk
    /\ skPos = 0
    /\ skState = "uncalled"
    /\ skCallPos = 0
    /\ skAfter = <<>>
    /\ ptPos = 0
    /\ ptGen = "new"
    /\ ptChunks = <<>>
    /\ ptEnds = 0

ChunkNext ==
    \/ SkipPullBefore
    \/ SkipCall
    \/ SkipPull
    \/ PartitionPull
    \/ PartitionPullEnded

SpecChunk == ChunkInit /\ [][ChunkNext]_vars

\* ------------------------------------------------ skip, partition: claims
\* C15: skip(n) on a handle with at least n items left discards exactly the
\* next n items during the call, and the pulls that follow yield the items
\* from the one that was n places on.
C15_SkipDiscardsAtCall ==
    /\ (skState # "uncalled" /\ Len(ckSrc) - skCallPos >= ckN) => skState = "returned"
    /\ skState = "returned" =>
          /\ skPos - Len(skAfter) = skCallPos + ckN
          /\ \A k \in 1 .. Len(skAfter) : skAfter[k] = ckSrc[skCallPos + ckN + k]

\* skip(2) called after one pull, then one more pull.
C15_Witness ==
    /\ skState = "returned"
    /\ ckN = 2
    /\ skCallPos = 1
    /\ Len(skAfter) = 1
    /\ skAfter[1] = ckSrc[4]

SkipUnderSupplied == skState # "uncalled" /\ Len(ckSrc) - skCallPos < ckN

SkipPolicy == IF skState = "raised" THEN "fail" ELSE "truncate"

PartitionUnderSupplied == \E k \in 1 .. Len(ptChunks) : Len(ptChunks[k]) < ckN

PartitionPolicy == IF ptGen = "raised" THEN "fail" ELSE "truncate"

\* C16: with fewer than n items left, skip(n) and partition(n) follow the same
\* policy: both truncate silently or both fail.
C16_UniformUnderSupply ==
    (SkipUnderSupplied /\ PartitionUnderSupplied) => SkipPolicy = PartitionPolicy

RECURSIVE Concat(_)
Concat(qs) == IF qs = <<>> THEN <<>> ELSE Head(qs) \o Concat(Tail(qs))

\* C19: partition(n), n >= 1: the chunks, joined in order, are the source;
\* every chunk but the last has n items, the last has 1 to n, none is empty.
C19_PartitionChunks ==
    ckN >= 1 =>
        /\ \A k \in 1 .. Len(ptChunks) :
              /\ Len(ptChunks[k]) >= 1
              /\ Len(ptChunks[k]) =< ckN
              /\ k < Len(ptChunks) => Len(ptChunks[k]) = ckN
        /\ Concat(ptChunks) = SubSeq(ckSrc, 1, ptPos)
        /\ ptGen = "done" => Concat(ptChunks) = ckSrc

\* Four items in chunks of three: a full chunk, then a chunk of one, then End.
C19_Witness ==
    /\ ptGen = "done"
    /\ ckN = 3
    /\ Len(ckSrc) = 4
    /\ Len(ptChunks) = 2
    /\ Len(ptChunks[2]) = 1


\* ============================== first, first_or_none, last, last_or_none
\* The outcome of an accessor called with pos items already consumed: what it
\* returned or raised, and where it leaves the iterator.
\* first(): next(self); StopIteration propagates.
First(pos) ==
    IF pos < Len(acSrc)
    THEN [kind |-> "returned", val |-> acSrc[pos + 1], pos |-> pos + 1]
    ELSE [kind |-> "StopIteration", val |-> NoneVal, pos |-> pos]

\* first_or_none(): next(self, None).
FirstOrNone(pos) ==
    IF pos < Len(acSrc)
    THEN [kind |-> "returned", val |-> acSrc[pos + 1], pos |-> pos + 1]
    ELSE [kind |-> "returned", val |-> NoneVal, pos |-> pos]

\* last(): list(self)[-1]; the IndexError of an empty list is turned into
\* StopIteration.
Last(pos) ==
    LET rest == SubSeq(acSrc, pos + 1, Len(acSrc))
    IN  IF rest # <<>>
        THEN [kind |-> "returned", val |-> rest[Len(rest)], pos |-> Len(acSrc)]
        ELSE [kind |-> "StopIteration", val |-> NoneVal, pos |-> Len(acSrc)]

\* A last_or_none without its `except StopIteration`.
LastOrNoneUncaught(pos) == Last(pos)

\* last_or_none(): self.last(key), with StopIteration caught and None returned.
LastOrNone(pos) ==
    IF Last(pos).kind = "StopIteration"
    THEN [kind |-> "returned", val |-> NoneVal, pos |-> Last(pos).pos]
    ELSE Last(pos)

Accessor(op, pos) ==
    CASE op = "first" -> First(pos)
      [] op = "first_or_none" -> FirstOrNone(pos)
      [] op = "last" -> Last(pos)
      [] op = "last_or_none" -> LastOrNone(pos)

\* next() on the handle before the accessor is called.
AcPull ==
    /\ acOp = "none"
    /\ acPos < Len(acSrc)
    /\ acPos' = acPos + 1
    /\ UNCHANGED <<acSrc, acOp, acAt, acResult>>
    /\ UNCHANGED notAcc

AcCall(op) ==
    /\ acOp = "none"
    /\ acOp' = op
    /\ acAt' = acPos
    /\ acResult' = <<Accessor(op, acPos).kind, Accessor(op, acPos).val>>
    /\ acPos' = Accessor(op, acPos).pos
    /\ UNCHANGED acSrc
    /\ UNCHANGED notAcc

AcFirst ==
    /\ acOp = "none"
    /\ AcCall("first")

AcFirstOrNone ==
    /\ acOp = "none"
    /\ AcCall("first_or_none")

AcLast ==
    /\ acOp = "none"
    /\ AcCall("last")

AcLastOrNone ==
    /\ acOp = "none"
    /\ AcCall("last_or_none")

AccInit ==
    /\ mode = "access"
    /\ OthersIdle("access")
    /\ acSrc \in Sources
    /\ acPos = 0
    /\ acOp = "none"
    /\ acAt = 0
    /\ acResult = <<"none", NoneVal>>

AccNext ==
    \/ AcPull
    \/ AcFirst
    \/ AcFirstOrNone
    \/ AcLast
    \/ AcLastOrNone

SpecAccess == AccInit /\ [][AccNext]_vars

\* C20: on a handle with nothing left first() and last() raise StopIteration
\* and first_or_none() and last_or_none() return None; on a handle with items
\* left first and first_or_none return the first remaining item, last and
\* last_or_none the final item.
C20_Accessors ==
    acOp # "none" =>
        IF acAt = Len(acSrc)
        THEN /\ acOp \in {"first", "last"} => acResult = <<"StopIteration", NoneVal>>
             /\ acOp \in {"first_or_none", "last_or_none"} => acResult = <<"returned", NoneVal>>
        ELSE /\ acOp \in {"first", "first_or_none"} => acResult = <<"returned", acSrc[acAt + 1]>>
             /\ acOp \in {"last", "last_or_none"} => acResult = <<"returned", acSrc[Len(acSrc)]>>

\* last_or_none() on a handle whose two items were already pulled.
C20_Witness ==
    /\ acOp = "last_or_none"
    /\ Len(acSrc) = 2
    /\ acAt = 2
    /\ acResult = <<"returned", NoneVal>>


\* ------------------------------------------- parallelize: configuration
\* C18: parallelize with number_of_threads zero or negative is rejected by
\* the call: no handle is returned, no failure shows up at a later pull, and
\* no pool is made with a default size in place of the value.
C18_ParBadThreadsRejected ==
    threads =< 0 =>
        /\ pc = "rejected"
        /\ exit # "raised"
        /\ pool = "none"


\* =================== filter, map, take, flatten, group, unique: laziness
LazyOps == {"filter", "map", "take", "flatten", "group", "unique"}

\* A scan that passes over the item it starts at.
FirstInSkipping(pos, S) ==
    LET found == {j \in pos + 2 .. Len(lzSrc) : lzSrc[j] \in S}
    IN  IF found = {} THEN 0 ELSE CHOOSE j \in found : \A k \in found : j =< k

\* The place of the first item after pos that is in S, 0 when there is none:
\* where filter(key, self._items), or unique's loop, stops scanning.
FirstIn(pos, S) ==
    LET found == {j \in pos + 1 .. Len(lzSrc) : lzSrc[j] \in S}
    IN  IF found = {} THEN 0 ELSE CHOOSE j \in found : \A k \in found : j =< k

\* grouped[key(it)].append(it), key the identity; a dict keeps insertion order.
GroupAdd(g, it) ==
    IF \E k \in 1 .. Len(g) : g[k][1] = it
    THEN [k \in 1 .. Len(g) |-> IF g[k][1] = it THEN <<g[k][1], Append(g[k][2], it)>> ELSE g[k]]
    ELSE Append(g, <<it, <<it>>>>)

RECURSIVE GroupAll(_, _)
GroupAll(g, q) == IF q = <<>> THEN g ELSE GroupAll(GroupAdd(g, Head(q)), Tail(q))

\* What calling the operator does to the upstream iterator, and the state the
\* returned handle starts from.  filter, map, flatten wrap self._items in a
\* lazy iterator; take and unique wrap a generator that has not started;
\* group runs `for it in self._items` to the end before it returns.
LzCalled(op, pos) ==
    IF op = "group"
    THEN [pos |-> Len(lzSrc), grouped |-> GroupAll(<<>>, SubSeq(lzSrc, pos + 1, Len(lzSrc)))]
    ELSE [pos |-> pos, grouped |-> <<>>]

\* One next() on the returned handle: where it leaves upstream, what it
\* yields (out, empty when it signals End), and the adapter's own state.
LzStep ==
    LET end == [pos |-> lzPos, out |-> <<>>, seen |-> lzSeen, count |-> lzCount]
        one == [pos |-> lzPos + 1, out |-> <<>>, seen |-> lzSeen, count |-> lzCount]
        S   == IF lzOp = "filter" THEN lzPred ELSE Items \ lzSeen
        j   == FirstIn(lzPos, S)
    IN  CASE lzOp \in {"filter", "unique"} ->
                IF j = 0 THEN [end EXCEPT !.pos = Len(lzSrc)]
                ELSE [end EXCEPT !.pos = j, !.out = <<<<lzSrc[j]>>>>,
                                 !.seen = IF lzOp = "unique" THEN lzSeen \cup {lzSrc[j]} ELSE lzSeen]
          [] lzOp = "map" ->
                IF lzPos < Len(lzSrc) THEN [one EXCEPT !.out = <<<<"f", lzSrc[lzPos + 1]>>>>] ELSE end
          [] lzOp = "flatten" ->
                IF lzPos < Len(lzSrc) THEN [one EXCEPT !.out = <<<<lzSrc[lzPos + 1]>>>>] ELSE end
          [] lzOp = "take" ->
                IF lzCount < lzN /\ lzPos < Len(lzSrc)
                THEN [one EXCEPT !.out = <<<<lzSrc[lzPos + 1]>>>>, !.count = lzCount + 1]
                ELSE IF lzCount < lzN THEN end ELSE [end EXCEPT !.count = lzN]
          [] lzOp = "group" ->
                IF lzCount < Len(lzGrouped)
                THEN [end EXCEPT !.out = <<<<lzGrouped[lzCount + 1][1]>> \o lzGrouped[lzCount + 1][2]>>,
                                 !.count = lzCount + 1]
                ELSE end

\* next() on the handle before the operator is called on it.
LzPullBefore ==
    /\ lzState = "uncalled"
    /\ lzPos < Len(lzSrc)
    /\ lzPos' = lzPos + 1
    /\ UNCHANGED <<lzSrc, lzOp, lzPred, lzN, lzState, lzAtCall, lzCallPos, lzPulls, lzOut,
                   lzSeen, lzGrouped, lzCount>>
    /\ UNCHANGED notLazy

\* The call of the operator.
LzCall ==
    /\ lzState = "uncalled"
    /\ lzState' = "called"
    /\ lzPos' = LzCalled(lzOp, lzPos).pos
    /\ lzAtCall' = LzCalled(lzOp, lzPos).pos - lzPos
    /\ lzCallPos' = lzPos
    /\ lzGrouped' = LzCalled(lzOp, lzPos).grouped
    /\ UNCHANGED <<lzSrc, lzOp, lzPred, lzN, lzPulls, lzOut, lzSeen, lzCount>>
    /\ UNCHANGED notLazy

\* next() on the handle the operator returned.
LzPull ==
    /\ lzState = "called"
    /\ lzPulls' = lzPulls + 1
    /\ lzPos' = LzStep.pos
    /\ lzOut' = lzOut \o LzStep.out
    /\ lzSeen' = LzStep.seen
    /\ lzCount' = LzStep.count
    /\ lzState' = IF LzStep.out = <<>> THEN "done" ELSE "called"
    /\ UNCHANGED <<lzSrc, lzOp, lzPred, lzN, lzAtCall, lzCallPos, lzGrouped>>
    /\ UNCHANGED notLazy

LazyInit ==
    /\ mode = "lazy"
    /\ OthersIdle("lazy")
    /\ lzSrc \in Sources
    /\ lzOp \in LazyOps
    /\ lzPred \in IF lzOp = "filter" THEN SUBSET Items ELSE {{}}
    /\ lzN \in IF lzOp = "take" THEN 0 .. MaxTake ELSE {0}
    /\ lzPos = 0
    /\ lzState = "uncalled"
    /\ lzAtCall = 0
    /\ lzCallPos = 0
    /\ lzPulls = 0
    /\ lzOut = <<>>
    /\ lzSeen = {}
    /\ lzGrouped = <<>>
    /\ lzCount = 0

LazyNext ==
    \/ LzPullBefore
    \/ LzCall
    \/ LzPull

SpecLazy == LazyInit /\ [][LazyNext]_vars

\* C14: calling filter, map, take, flatten, group or unique pulls no item from
\* upstream; while the returned handle has not been pulled, upstream stands
\* where it stood before the call.
C14_LazyAtCall ==
    lzState # "uncalled" => lzAtCall = 0


\* ================================================== every kind of handle
\* One handle under study per behaviour: a wrapped source and a take of it,
\* a sweep, a skip and a partition, a parallelize, or the outputs of a split.
HandlesInit ==
    \/ TakeInit
    \/ SweepInit
    \/ ChunkInit
    \/ ParInit
    \/ SplitInit

HandlesNext ==
    \/ mode = "take" /\ TakePull
    \/ mode = "take" /\ TakePullEnded
    \/ mode = "take" /\ ParentPull
    \/ mode = "take" /\ ParentPullEnded
    \/ mode = "sweep" /\ SweepFirstPull
    \/ mode = "sweep" /\ SweepPull
    \/ mode = "sweep" /\ SweepPullEnded
    \/ mode = "chunk" /\ SkipPullBefore
    \/ mode = "chunk" /\ SkipCall
    \/ mode = "chunk" /\ SkipPull
    \/ mode = "chunk" /\ PartitionPull
    \/ mode = "chunk" /\ PartitionPullEnded
    \/ mode = "parallelize" /\ ParFirstPull
    \/ mode = "parallelize" /\ ParSubmit
    \/ mode = "parallelize" /\ ParAsCompleted
    \/ mode = "parallelize" /\ WorkerTake
    \/ mode = "parallelize" /\ (\E t \in Tasks : WorkerFinish(t))
    \/ mode = "parallelize" /\ WorkerExit
    \/ mode = "parallelize" /\ ParYieldSnapshot
    \/ mode = "parallelize" /\ ParYieldWaiter
    \/ mode = "parallelize" /\ ParPull
    \/ mode = "parallelize" /\ ParDrained
    \/ mode = "parallelize" /\ ParClose
    \/ mode = "parallelize" /\ ParCloseUnstarted
    \/ mode = "parallelize" /\ ParJoined
    \/ mode = "parallelize" /\ ParPullEnded
    \/ mode = "split" /\ (\E i \in Outputs : SplitFirstPull(i))
    \/ mode = "split" /\ (\E i \in Outputs : SplitPull(i))
    \/ mode = "split" /\ (\E i \in Outputs : SplitPullEnded(i))

SpecHandles == HandlesInit /\ [][HandlesNext]_vars

\* A handle that has signalled End yields nothing in this step.
EndIsFinal ==
    /\ tkParentEnds >= 1 => tkParentOut' = tkParentOut
    /\ tkEnds >= 1 => tkOut' = tkOut
    /\ swEnds >= 1 => windows' = windows
    /\ ptEnds >= 1 => ptChunks' = ptChunks
    /\ pEnds >= 1 => (yielded' = yielded /\ pValues' = pValues)
    /\ \A i \in Outputs : spEnds[i] >= 1 => spOut'[i] = spOut[i]

\* Whatever a handle yields in this step it has not yielded before: it comes
\* from upstream items pulled in this very step (a task not yet yielded, for
\* parallelize; the head of the output's deque, for split).
YieldsAreNew ==
    /\ (tkParentOut' # tkParentOut \/ tkOut' # tkOut) =>
          /\ tkPos' = tkPos + 1
          /\ Len(tkParentOut') + Len(tkOut') = tkPos'
    /\ windows' # windows => (windows = <<>> \/ swPos' > swPos)
    /\ ptChunks' # ptChunks =>
          /\ ptPos' > ptPos
          /\ Concat(ptChunks') = SubSeq(ckSrc, 1, ptPos')
    /\ NoDup(yielded')
    /\ spOut' # spOut =>
          spPos' = SumLen(spOut', spN - 1) + SumLen(collections', spN - 1)

\* C12: once a pull of a handle has signalled End no later pull of it yields
\* an item, and no handle yields the same item twice.
C12_SingleConsumption == [][EndIsFinal /\ YieldsAreNew]_vars

\* Both the take handle and the handle it was taken from have been pulled
\* again after signalling End.
C12_Witness ==
    /\ mode = "take"
    /\ tkEnds = 2
    /\ tkParentEnds = 2
    /\ Len(tkOut) = 2
    /\ Len(tkParentOut) = 2


\* =============================================================== consume
\* Python's truth of the argument in `range(n) if n else self._items`: None
\* and 0 are false.
Truthy(arg) == arg[1] = "int" /\ arg[2] # 0

\* `for _ in range(k): next(self._items)`; StopIteration is caught and ends it.
RECURSIVE ConsumeRange(_, _)
ConsumeRange(pos, k) ==
    IF k = 0 THEN pos
    ELSE IF pos >= Len(cnSrc) THEN pos
    ELSE ConsumeRange(pos + 1, k - 1)

\* `for _ in self._items: next(self._items)`: the for statement pulls one
\* item and the body another, until either finds the iterator exhausted.
RECURSIVE ConsumeAll(_)
ConsumeAll(pos) ==
    IF pos >= Len(cnSrc) THEN pos
    ELSE IF pos + 1 >= Len(cnSrc) THEN pos + 1
    ELSE ConsumeAll(pos + 2)

\* consume(n): where it leaves the iterator.
Consume(pos, arg) ==
    IF Truthy(arg) THEN ConsumeRange(pos, arg[2]) ELSE ConsumeAll(pos)

\* next() on the handle before consume is called on it.
CnPullBefore ==
    /\ cnState = "uncalled"
    /\ cnPos < Len(cnSrc)
    /\ cnPos' = cnPos + 1
    /\ UNCHANGED <<cnSrc, cnArg, cnState, cnAt, cnAfter>>
    /\ UNCHANGED notConsume

\* The call consume(n); it returns self.
CnCall ==
    /\ cnState = "uncalled"
    /\ cnAt' = cnPos
    /\ cnPos' = Consume(cnPos, cnArg)
    /\ cnState' = "returned"
    /\ UNCHANGED <<cnSrc, cnArg, cnAfter>>
    /\ UNCHANGED notConsume

\* next() on the handle consume returned.
CnPull ==
    /\ cnState = "returned"
    /\ cnPos < Len(cnSrc)
    /\ cnAfter' = Append(cnAfter, cnSrc[cnPos + 1])
    /\ cnPos' = cnPos + 1
    /\ UNCHANGED <<cnSrc, cnArg, cnState, cnAt>>
    /\ UNCHANGED notConsume

ConsumeInit ==
    /\ mode = "consume"
    /\ OthersIdle("consume")
    /\ cnSrc \in Sources
    /\ cnArg \in {<<"none", 0>>} \cup {<<"int", k>> : k \in 0 .. MaxConsume}
    /\ cnPos = 0
    /\ cnState = "uncalled"
    /\ cnAt = 0
    /\ cnAfter = <<>>

ConsumeNext ==
    \/ CnPullBefore
    \/ CnCall
    \/ CnPull

SpecConsume == ConsumeInit /\ [][ConsumeNext]_vars

\* How many items the call removed.
CnRemoved == cnPos - Len(cnAfter) - cnAt

\* C21: consume(n) for an integer n >= 0 removes exactly min(n, remaining)
\* items and leaves the rest to later pulls; consume() with n = None removes
\* everything.
C21_ConsumeRemovesN ==
    cnState = "returned" =>
        /\ cnArg[1] = "int" => CnRemoved = Min(cnArg[2], Len(cnSrc) - cnAt)
        /\ cnArg[1] = "none" => CnRemoved = Len(cnSrc) - cnAt
        /\ \A k \in 1 .. Len(cnAfter) : cnAfter[k] = cnSrc[cnAt + CnRemoved + k]


\* ---------------------------------------------------------------- filter
\* The items of q that are in S, each as often as it is in q and in q's
\* order, wrapped as the handle's yields are recorded.
RECURSIVE Satisfying(_, _)
Satisfying(q, S) ==
    IF q = <<>> THEN <<>>
    ELSE (IF Head(q) \in S THEN <<<<Head(q)>>>> ELSE <<>>) \o Satisfying(Tail(q), S)

\* C22: filter(P) on a handle holding the sequence S, drained, yields exactly
\* the items of S that satisfy P, each once and in their original order; on
\* the way the yields are those of the part of S pulled so far.
C22_FilterExact ==
    (lzOp = "filter" /\ lzState # "uncalled") =>
        /\ lzOut = Satisfying(SubSeq(lzSrc, lzCallPos + 1, lzPos), lzPred)
        /\ lzState = "done" =>
              /\ lzPos = Len(lzSrc)
              /\ lzOut = Satisfying(SubSeq(lzSrc, lzCallPos + 1, Len(lzSrc)), lzPred)

\* A filter that keeps two of four items, drained to End.
C22_Witness ==
    /\ lzOp = "filter"
    /\ lzState = "done"
    /\ lzPred = {"a"}
    /\ lzCallPos = 0
    /\ Len(lzSrc) = 4
    /\ lzOut = <<<<"a">>, <<"a">>>>
    /\ lzSrc[1] = "b"


\* ------------------------------------------------- split: pull protocol
\* C23: split pulls upstream one item at a time and only until the output
\* being pulled has an item: the item pulled last was pulled for the output it
\* belongs to and handed over at once, so that output's deque is empty; in
\* particular the first item of output 0, nothing else pulled, costs exactly
\* one upstream item.
C23_SplitMinimalPull ==
    /\ spPos > 0 => collections[(spPos - 1) % spN] = <<>>
    /\ (Len(spOut[0]) = 1 /\ \A i \in Outputs \ {0} : spGen[i] = "new") => spPos = 1

\* C24: an output that has signalled End did so with upstream exhausted and
\* its own deque empty, and every item destined for it delivered, whatever the
\* interleaving of the pulls.
C24_SplitEndOnlyWhenEmpty ==
    \A i \in Outputs :
        spGen[i] = "done" =>
            /\ spPos = Len(spSrc)
            /\ collections[i] = <<>>
            /\ Len(spOut[i]) = Len(Residue(spSrc, i, spN))

\* Output 1 has delivered its items and signalled End while output 0, never
\* pulled, still has items waiting in its deque.
C24_Witness ==
    /\ spGen[1] = "done"
    /\ Len(spOut[1]) >= 1
    /\ spGen[0] = "new"
    /\ Len(collections[0]) >= 2


\* -------------------------------------------- parallelize: eager submit
\* C25: when a parallelize handle has yielded a value, every upstream item
\* has been pulled and submitted to the pool; upstream being exhausted from
\* the first yield on, nothing is pulled between later yields.
C25_ParSubmitsAllFirst ==
    yielded # <<>> =>
        /\ pPos = Len(pSrc)
        /\ Len(task) = Len(pSrc)

\* The first value of MaxTasks yielded while a submitted item is still
\* waiting in the pool's queue.
C25_Witness ==
    /\ Len(yielded) = 1
    /\ Len(pSrc) = MaxTasks
    /\ pPos = MaxTasks
    /\ \E t \in Tasks : task[t] = "queued"


\* ------------------------------------------------- sweep: incremental
\* C26: a sweep handle that has produced j windows has pulled at most
\* width + (j - 1) * step upstream items, and none before its first pull; no
\* pull of the handle takes more than max(width, step) items from upstream.
C26_SweepIncremental ==
    /\ windows = <<>> => swPos = 0
    /\ windows # <<>> => swPos =< width + (Len(windows) - 1) * step

\* Two windows produced with upstream items still unpulled.
C26_Witness ==
    /\ Len(windows) = 2
    /\ width = 2
    /\ swPos = width + step
    /\ swPos < Len(swSrc)
    /\ swGen = "suspended"

====
